---- MODULE Spec2Model ----
(***************************************************************************)
(* A model of dmrgo's job runner: the intermediate line codec              *)
(* (readLineValue, readLineKeyValue), the map driver (mapper,              *)
(* mapperFinal), the reduce driver (reducer) with its per-group goroutine, *)
(* the full pipeline (mapreduce) and the mode selection (Main).            *)
(*                                                                         *)
(* A string is a sequence of one-character strings; a stream (a file,      *)
(* standard input) is one such sequence holding the lines with their       *)
(* terminators.                                                            *)
(***************************************************************************)
EXTENDS Integers, Sequences, FiniteSets, TLC

\* ------------------------------------------------------------------------
\* Characters and bytes
\* ------------------------------------------------------------------------

TAB == "\t"
NL == "\n"

UpperHex == <<"0", "1", "2", "3", "4", "5", "6", "7", "8", "9", "A", "B", "C", "D", "E", "F">>
LowerHex == <<"0", "1", "2", "3", "4", "5", "6", "7", "8", "9", "a", "b", "c", "d", "e", "f">>

Digits == {"0", "1", "2", "3", "4", "5", "6", "7", "8", "9"}
Letters == {"A", "B", "C", "D", "E", "F", "a", "b", "c", "d", "e", "f"}

\* The bytes the model names; every other byte reads as "?".
KnownChars == {TAB, NL, " ", "!", "%", "+", ","} \cup Digits \cup Letters

CharCode(c) ==
  CASE c = TAB -> 9
    [] c = NL -> 10
    [] c = " " -> 32
    [] c = "!" -> 33
    [] c = "%" -> 37
    [] c = "+" -> 43
    [] c = "," -> 44
    [] c \in Digits -> 47 + (CHOOSE i \in 1..10 : UpperHex[i] = c)
    [] c \in {"A", "B", "C", "D", "E", "F"} -> 54 + (CHOOSE i \in 11..16 : UpperHex[i] = c)
    [] c \in {"a", "b", "c", "d", "e", "f"} -> 86 + (CHOOSE i \in 11..16 : LowerHex[i] = c)
    [] OTHER -> 63

ByteChar(n) ==
  IF \E c \in KnownChars : CharCode(c) = n
  THEN CHOOSE c \in KnownChars : CharCode(c) = n
  ELSE "?"

\* ------------------------------------------------------------------------
\* Library functions of strings, bufio and net/url, as the code uses them
\* ------------------------------------------------------------------------

RECURSIVE TrimRight(_, _)
TrimRight(s, c) ==
  IF Len(s) > 0 /\ s[Len(s)] = c THEN TrimRight(SubSeq(s, 1, Len(s) - 1), c) ELSE s

\* strings.SplitN(s, sep, 2): at most two pieces, cut at the first separator.
SplitN2(s, sep) ==
  IF \E i \in 1..Len(s) : s[i] = sep
  THEN LET i == CHOOSE i \in 1..Len(s) : s[i] = sep /\ \A j \in 1..(i - 1) : s[j] # sep
       IN <<SubSeq(s, 1, i - 1), SubSeq(s, i + 1, Len(s))>>
  ELSE <<s>>

\* bufio.Reader.ReadString(delim) on the stream data read up to position pos:
\* the bytes up to and including the first delim, or the rest and an error.
ReadString(data, pos, delim) ==
  IF \E i \in (pos + 1)..Len(data) : data[i] = delim
  THEN LET i == CHOOSE i \in (pos + 1)..Len(data) :
                  data[i] = delim /\ \A j \in (pos + 1)..(i - 1) : data[j] # delim
       IN [str |-> SubSeq(data, pos + 1, i), pos |-> i, err |-> FALSE]
  ELSE [str |-> SubSeq(data, pos + 1, Len(data)), pos |-> Len(data), err |-> TRUE]

IsHex(c) == \E i \in 1..16 : UpperHex[i] = c \/ LowerHex[i] = c

Unhex(c) == (CHOOSE i \in 1..16 : UpperHex[i] = c \/ LowerHex[i] = c) - 1

\* url.QueryUnescape, first pass: every % is followed by two hex digits.
WellEscaped(s) ==
  \A i \in 1..Len(s) :
    s[i] = "%" => (i + 2 <= Len(s) /\ IsHex(s[i + 1]) /\ IsHex(s[i + 2]))

RECURSIVE UnescapeFrom(_, _)
UnescapeFrom(s, i) ==
  IF i > Len(s) THEN <<>>
  ELSE IF s[i] = "%"
       THEN <<ByteChar(16 * Unhex(s[i + 1]) + Unhex(s[i + 2]))>> \o UnescapeFrom(s, i + 3)
       ELSE IF s[i] = "+" THEN <<" ">> \o UnescapeFrom(s, i + 1)
       ELSE <<s[i]>> \o UnescapeFrom(s, i + 1)

\* url.QueryUnescape: %XX to the byte, + to a space; an error on a bad escape.
QueryUnescape(s) ==
  IF WellEscaped(s) THEN [err |-> FALSE, str |-> UnescapeFrom(s, 1)]
  ELSE [err |-> TRUE, str |-> <<>>]

\* ------------------------------------------------------------------------
\* The record codec
\* ------------------------------------------------------------------------

KeyValue(r, s, v) == [ReduceKey |-> r, SortKey |-> s, Value |-> v]

NoKV == [err |-> TRUE, kv |-> KeyValue(<<>>, <<>>, <<>>), pos |-> 0]

\* readLineValue: one line of map input, its terminator removed; a last line
\* without terminator is an error.
readLineValue(data, pos) ==
  LET r == ReadString(data, pos, NL)
  IN IF r.err THEN [NoKV EXCEPT !.pos = r.pos]
     ELSE [err |-> FALSE, kv |-> KeyValue(<<>>, <<>>, TrimRight(r.str, NL)), pos |-> r.pos]

\* The sort key taken as it stands in the line, not unescaped.
SortKeyRaw(keys) ==
  [err |-> FALSE, str |-> IF Len(keys) = 2 THEN keys[2] ELSE <<>>]

\* The sort key of a key field: unescaped when the field has a comma.
SortKeyOf(keys) ==
  IF Len(keys) = 2 THEN QueryUnescape(keys[2]) ELSE [err |-> FALSE, str |-> <<>>]

\* readLineKeyValue: key field up to the first tab, split at its first comma
\* and unescaped; value up to the line terminator.
readLineKeyValue(data, pos) ==
  LET rk == ReadString(data, pos, TAB)
      keys == SplitN2(TrimRight(rk.str, TAB), ",")
      reduceKey == QueryUnescape(keys[1])
      sortKey == SortKeyOf(keys)
      rv == ReadString(data, rk.pos, NL)
  IN IF rk.err THEN [NoKV EXCEPT !.pos = rk.pos]
     ELSE IF reduceKey.err \/ sortKey.err THEN [NoKV EXCEPT !.pos = rk.pos]
     ELSE IF rv.err THEN [NoKV EXCEPT !.pos = rv.pos]
     ELSE [err |-> FALSE,
           kv |-> KeyValue(reduceKey.str, sortKey.str, TrimRight(rv.str, NL)),
           pos |-> rv.pos]

\* Percent-encoding of a key: letters and digits stay, every other byte
\* becomes % and two hex digits.
RECURSIVE PercentEncode(_)
PercentEncode(s) ==
  IF Len(s) = 0 THEN <<>>
  ELSE (IF s[1] \in Digits \cup Letters
        THEN <<s[1]>>
        ELSE <<"%", UpperHex[(CharCode(s[1]) \div 16) + 1], UpperHex[(CharCode(s[1]) % 16) + 1]>>)
       \o PercentEncode(Tail(s))

\* The intermediate line of a record: key[,sortkey] TAB value NL.
encodeKeyValueLine(reduceKey, sortKey, value) ==
  PercentEncode(reduceKey)
    \o (IF Len(sortKey) = 0 THEN <<>> ELSE <<",">> \o PercentEncode(sortKey))
    \o <<TAB>> \o value \o <<NL>>

\* ------------------------------------------------------------------------
\* Bounds
\* ------------------------------------------------------------------------

\* Longest standard input of the reduce driver, in records.
MaxRecords == 3

\* Capacity of a group's value stream (make(chan string, 64)), scaled down
\* so that the stream fills within MaxRecords records.
ValuesCap == 2

\* Most input files named on the command line.
MaxFiles == 2

\* Most lines of a map input.
MaxLines == 1

\* Most lines of the map filter's standard input.
MaxFilterLines == 2

\* Largest -mappers, -reducers and -partitions.
MaxMappers == 2
MaxReducers == 2
MaxPartitions == 2

\* Longest key the codec is given, in bytes.
MaxKeyLen == 2

\* Most records before the end of a reduce input that ends badly.
MaxTailRecords == 2

\* Most records of a partition that is sorted on its own.
MaxSortRecords == 3

\* Reduce keys of the records the model feeds in and the job emits.
Keys == {<<"a">>, <<"b", ",">>}

\* Source-file indices of partitioned sinks: one per input file, and the one
\* past the last for MapFinal.
Tags == 0..MaxFiles
Parts == 0..(MaxPartitions - 1)

\* Mapper 0 is Main's own run of mapper on standard input; the others are the
\* goroutines of the pool.
Mappers == 0..MaxMappers
MapWorkers == 1..MaxMappers
RedWorkers == 1..MaxReducers

\* Driver 0 is the run of reducer on standard input, driver p + 1 the run on
\* partition p's sorted file.
Drivers == 0..MaxPartitions

\* ------------------------------------------------------------------------
\* State
\* ------------------------------------------------------------------------

VARIABLES
  opt,       \* the flags: optDoMap, optDoReduce, optDoMapReduce, optNumPartitions, optNumMappers, optNumReducers
  args,      \* flag.Args(): the input files, each openable or not, with its content
  stdin,     \* standard input
  codec,     \* a record on its way through the codec: encoded, then decoded
  sorter,    \* records on their way through a partition's files: encoded, sorted, decoded
  mainpc,    \* the position of Main and of mapreduce, which it calls
  exit,      \* the process's exit status, "" while it runs
  panicked,  \* a goroutine panicked: the process is gone
  wg,        \* the WaitGroup's counter
  work,      \* mapperWork: the next index to send, whether it is closed, and per index the times it was handed out and mapper was run on it
  mp,        \* the runs of mapper: position, input index, reader
  sink,      \* the emitter of each mapper run (Main's is also MapFinal's)
  tmp,       \* the intermediate files tmp-map-out-p<pid>-f<tag>.<partition>
  parts,     \* partitions: the next index to send, whether it is closed, and per index the times it was handed out and reducer was run on it
  rw,        \* the reducer goroutines of the pool: position, partition, fns
  redin,     \* the sorted files tmp-red-in-p<pid>.<partition>
  redout,    \* the output files red-out-p<pid>.<partition>
  calls,     \* Map and MapFinal: invocations started, and Map invocations in progress
  emitted,   \* every record the job emitted in the map phase
  drv,       \* reducer's locals, per driver: br, mkv, currentReduceKey, isFirstRun, values, done
  vch,       \* the values channels a driver made, in order: buffer, closed flag, all values sent
  dch,       \* the done channels a driver made, in order: closed flag
  gor        \* the goroutines a driver started, in order

cfgVars == <<opt, args, stdin, codec, sorter>>
mapVars == <<work, mp, sink, tmp, calls, emitted>>
redVars == <<parts, rw, redin, redout>>
pipeVars == <<cfgVars, exit, wg, mapVars, redVars>>
drvVars == <<drv, vch, dch, gor>>

vars == <<opt, args, stdin, codec, sorter, mainpc, exit, panicked, wg, work, mp, sink, tmp,
          parts, rw, redin, redout, calls, emitted, drv, vch, dch, gor>>

\* A channel variable holds the number of the channel among those its driver
\* made, 0 for nil.
DrvInit(data) ==
  [data |-> data, pos |-> 0, pc |-> "idle",
   mkv |-> KeyValue(<<>>, <<>>, <<>>),
   currentReduceKey |-> <<>>, isFirstRun |-> TRUE,
   values |-> 0, done |-> 0]

\* The process runs: no panic, no os.Exit, Main has not returned.
Alive == ~panicked /\ mainpc # "exit"

\* ------------------------------------------------------------------------
\* reducer: the reading loop
\* ------------------------------------------------------------------------

\* A new group starts at the first record and at every change of reduce key.
NewGroup(d, kv) == drv[d].currentReduceKey # kv.ReduceKey \/ drv[d].isFirstRun

\* mkv, err := readLineKeyValue(br), and the branch on it.
DrvRead(d) ==
  /\ Alive /\ drv[d].pc = "read"
  /\ LET r == readLineKeyValue(drv[d].data, drv[d].pos)
     IN drv' = [drv EXCEPT ![d] =
          IF r.err THEN [@ EXCEPT !.pos = r.pos, !.pc = "closeFinal"]
          ELSE [@ EXCEPT !.pos = r.pos, !.mkv = r.kv,
                         !.pc = IF NewGroup(d, r.kv)
                                THEN (IF drv[d].isFirstRun THEN "mkValues" ELSE "closePrev")
                                ELSE "send"]]
  /\ UNCHANGED <<vch, dch, gor, panicked, mainpc, pipeVars>>

\* close(values): a panic on the nil channel and on a closed one.
DrvClose(d) ==
  /\ Alive /\ drv[d].pc \in {"closePrev", "closeFinal"}
  /\ LET c == drv[d].values
     IN IF c = 0 \/ vch[d][c].closed
        THEN /\ panicked' = TRUE
             /\ UNCHANGED <<drv, vch>>
        ELSE /\ vch' = [vch EXCEPT ![d][c].closed = TRUE]
             /\ drv' = [drv EXCEPT ![d].pc =
                         IF drv[d].pc = "closePrev" THEN "waitPrev" ELSE "waitFinal"]
             /\ UNCHANGED panicked
  /\ UNCHANGED <<dch, gor, mainpc, pipeVars>>

AfterWait(d) == IF drv[d].pc = "waitPrev" THEN "mkValues" ELSE "done"

\* <-done, meeting the send of a goroutine on the same channel.
DrvWaitRecv(d) ==
  /\ Alive /\ drv[d].pc \in {"waitPrev", "waitFinal"}
  /\ drv[d].done # 0 /\ ~dch[d][drv[d].done]
  /\ \E g \in 1..Len(gor[d]) :
       /\ gor[d][g].pc = "sending" /\ gor[d][g].sendTo = drv[d].done
       /\ gor' = [gor EXCEPT ![d][g].pc = "sent"]
  /\ drv' = [drv EXCEPT ![d].pc = AfterWait(d)]
  /\ UNCHANGED <<vch, dch, panicked, mainpc, pipeVars>>

\* <-done on a closed channel returns at once.
DrvWaitClosed(d) ==
  /\ Alive /\ drv[d].pc \in {"waitPrev", "waitFinal"}
  /\ drv[d].done # 0 /\ dch[d][drv[d].done]
  /\ drv' = [drv EXCEPT ![d].pc = AfterWait(d)]
  /\ UNCHANGED <<vch, dch, gor, panicked, mainpc, pipeVars>>

\* isFirstRun = false; values = make(chan string, 64)
DrvMakeValues(d) ==
  /\ Alive /\ drv[d].pc = "mkValues"
  /\ vch' = [vch EXCEPT ![d] = Append(@, [buf |-> <<>>, closed |-> FALSE, sent |-> <<>>])]
  /\ drv' = [drv EXCEPT ![d].isFirstRun = FALSE, ![d].values = Len(vch[d]) + 1,
                        ![d].pc = "mkDone"]
  /\ UNCHANGED <<dch, gor, panicked, mainpc, pipeVars>>

\* done = make(chan bool)
DrvMakeDone(d) ==
  /\ Alive /\ drv[d].pc = "mkDone"
  /\ dch' = [dch EXCEPT ![d] = Append(@, FALSE)]
  /\ drv' = [drv EXCEPT ![d].done = Len(dch[d]) + 1, ![d].pc = "go"]
  /\ UNCHANGED <<vch, gor, panicked, mainpc, pipeVars>>

\* go func() {...}(); currentReduceKey = mkv.ReduceKey. The closure holds this
\* iteration's mkv and the variables values and done themselves.
DrvGo(d) ==
  /\ Alive /\ drv[d].pc = "go"
  /\ gor' = [gor EXCEPT ![d] = Append(@,
               [pc |-> "spawned", key |-> drv[d].mkv.ReduceKey,
                sortKey |-> drv[d].mkv.SortKey, ch |-> 0, got |-> <<>>,
                drained |-> FALSE, sendTo |-> 0])]
  /\ drv' = [drv EXCEPT ![d].currentReduceKey = drv[d].mkv.ReduceKey, ![d].pc = "send"]
  /\ UNCHANGED <<vch, dch, panicked, mainpc, pipeVars>>

\* A stream that always has room.
NeverFull(d, c) == FALSE

\* The buffer of a values channel holds as many values as its capacity.
Full(d, c) == Len(vch[d][c].buf) >= ValuesCap

\* values <- mkv.Value: blocks while the stream is full.
DrvSend(d) ==
  /\ Alive /\ drv[d].pc = "send"
  /\ LET c == drv[d].values
     IN IF vch[d][c].closed
        THEN /\ panicked' = TRUE
             /\ UNCHANGED <<drv, vch>>
        ELSE /\ ~Full(d, c)
             /\ vch' = [vch EXCEPT ![d][c].buf = Append(@, drv[d].mkv.Value),
                                 ![d][c].sent = Append(@, drv[d].mkv.Value)]
             /\ drv' = [drv EXCEPT ![d].pc = "read"]
             /\ UNCHANGED panicked
  /\ UNCHANGED <<dch, gor, mainpc, pipeVars>>

\* ------------------------------------------------------------------------
\* reducer: the goroutine of a group
\* ------------------------------------------------------------------------

\* The goroutine starts: mrjob.Reduce(mkv.ReduceKey, mkv.SortKey, values, emitter)
\* reads the variable values now.
GoStart(d) ==
  \E g \in 1..Len(gor[d]) :
    /\ Alive /\ gor[d][g].pc = "spawned"
    /\ gor' = [gor EXCEPT ![d][g].pc = "running", ![d][g].ch = drv[d].values]
    /\ UNCHANGED <<drv, vch, dch, panicked, mainpc, pipeVars>>

\* Reduce takes the next value of its stream.
GoRecv(d) ==
  \E g \in 1..Len(gor[d]) :
    /\ Alive /\ gor[d][g].pc = "running"
    /\ LET c == gor[d][g].ch
       IN /\ Len(vch[d][c].buf) > 0
          /\ gor' = [gor EXCEPT ![d][g].got = Append(@, Head(vch[d][c].buf))]
          /\ vch' = [vch EXCEPT ![d][c].buf = Tail(@)]
    /\ UNCHANGED <<drv, dch, panicked, mainpc, pipeVars>>

\* What Reduce emits goes to the emitter reducer was given: Main's print
\* emitter for the run on standard input. The content of a partition's
\* output file is not followed.
Emitted(d, kv) ==
  IF d = 0 THEN [sink EXCEPT ![0].buf = Append(@, kv)] ELSE sink

\* Reduce finds its stream closed and empty, emits the key with what it got,
\* and returns; done <- true reads the variable done now.
GoDrained(d) ==
  \E g \in 1..Len(gor[d]) :
    /\ Alive /\ gor[d][g].pc = "running"
    /\ LET c == gor[d][g].ch
       IN Len(vch[d][c].buf) = 0 /\ vch[d][c].closed
    /\ gor' = [gor EXCEPT ![d][g].pc = "sending", ![d][g].drained = TRUE,
                          ![d][g].sendTo = drv[d].done]
    /\ sink' = Emitted(d, KeyValue(gor[d][g].key, <<>>, gor[d][g].got))
    /\ UNCHANGED <<drv, vch, dch, panicked, mainpc, cfgVars, exit, wg, work, mp, tmp,
                   calls, emitted, redVars>>

\* Reduce emits the key with what it got and returns before the end of its
\* stream; done <- true reads the variable done now.
GoEarly(d) ==
  \E g \in 1..Len(gor[d]) :
    /\ Alive /\ gor[d][g].pc = "running"
    /\ LET c == gor[d][g].ch
       IN ~(Len(vch[d][c].buf) = 0 /\ vch[d][c].closed)
    /\ gor' = [gor EXCEPT ![d][g].pc = "sending", ![d][g].sendTo = drv[d].done]
    /\ sink' = Emitted(d, KeyValue(gor[d][g].key, <<>>, gor[d][g].got))
    /\ UNCHANGED <<drv, vch, dch, panicked, mainpc, cfgVars, exit, wg, work, mp, tmp,
                   calls, emitted, redVars>>

\* done <- true on a closed channel panics.
GoSendClosed(d) ==
  \E g \in 1..Len(gor[d]) :
    /\ Alive /\ gor[d][g].pc = "sending"
    /\ dch[d][gor[d][g].sendTo]
    /\ panicked' = TRUE
    /\ UNCHANGED <<drv, vch, dch, gor, mainpc, pipeVars>>

\* close(done) reads the variable done again; closing a closed channel panics.
GoClose(d) ==
  \E g \in 1..Len(gor[d]) :
    /\ Alive /\ gor[d][g].pc = "sent"
    /\ LET c == drv[d].done
       IN IF dch[d][c]
          THEN /\ panicked' = TRUE
               /\ UNCHANGED <<dch, gor>>
          ELSE /\ dch' = [dch EXCEPT ![d][c] = TRUE]
               /\ gor' = [gor EXCEPT ![d][g].pc = "finished"]
               /\ UNCHANGED panicked
    /\ UNCHANGED <<drv, vch, mainpc, pipeVars>>

\* ------------------------------------------------------------------------
\* The partitioned sink (newPartitionEmitter) and the job's emissions
\* ------------------------------------------------------------------------

RECURSIVE SumCodes(_)
SumCodes(s) == IF Len(s) = 0 THEN 0 ELSE CharCode(s[1]) + SumCodes(Tail(s))

\* The partition of a reduce key: a stable hash of the key, modulo the count.
PartitionOf(reduceKey, n) == SumCodes(reduceKey) % n

NoSink == [kind |-> "none", tag |-> 0, open |-> FALSE, buf |-> <<>>]

NewSink(kind, tag) == [kind |-> kind, tag |-> tag, open |-> TRUE, buf |-> <<>>]

NoFile == [exists |-> FALSE, lines |-> <<>>]

\* The files after a partitioned sink of this tag is made: one per partition.
Created(files, tag) ==
  [x \in Tags \X Parts |->
     IF x[1] = tag /\ x[2] < opt.NumPartitions
     THEN [exists |-> TRUE, lines |-> <<>>] ELSE files[x]]

RECURSIVE LinesFor(_, _)
\* The lines of the buffered records that belong to partition p.
LinesFor(buf, p) ==
  IF Len(buf) = 0 THEN <<>>
  ELSE (IF PartitionOf(buf[1].ReduceKey, opt.NumPartitions) = p
        THEN <<encodeKeyValueLine(buf[1].ReduceKey, buf[1].SortKey, buf[1].Value)>>
        ELSE <<>>) \o LinesFor(Tail(buf), p)

\* The files after a sink's Flush: every buffered record's line is appended
\* to the file of the sink's tag and the record's partition.
Flushed(files, s) ==
  [x \in Tags \X Parts |->
     IF s.kind = "partition" /\ x[1] = s.tag /\ files[x].exists
     THEN [files[x] EXCEPT !.lines = @ \o LinesFor(s.buf, x[2])] ELSE files[x]]

\* What one invocation of Map or MapFinal emits: nothing, or one record with
\* a key of Keys and the value v.
Emissions(v) == {<<>>} \cup {<<KeyValue(k, <<>>, v)>> : k \in Keys}

Records(e) == {e[i] : i \in 1..Len(e)}

\* ------------------------------------------------------------------------
\* mapper and mapperFinal
\* ------------------------------------------------------------------------

NoMapper == [pc |-> "off", idx |-> 0, data |-> <<>>, pos |-> 0, n |-> 0]

\* kv, err := readLineValue(br); on an error the loop ends, else Map is called.
MapRead(m) ==
  /\ Alive /\ mp[m].pc = "read"
  /\ LET r == readLineValue(mp[m].data, mp[m].pos)
     IN IF r.err
        THEN /\ mp' = [mp EXCEPT ![m].pc = "eof", ![m].pos = r.pos]
             /\ UNCHANGED calls
        ELSE /\ mp' = [mp EXCEPT ![m].pc = "inMap", ![m].pos = r.pos, ![m].n = @ + 1]
             /\ calls' = [calls EXCEPT !.Map = @ + 1, !.active = @ + 1]
  /\ UNCHANGED <<cfgVars, mainpc, exit, panicked, wg, work, sink, tmp, emitted,
                 redVars, drvVars>>

\* mrjob.Map("", kv.Value, emitter) returns, having emitted to its sink.
MapReturn(m) ==
  /\ Alive /\ mp[m].pc = "inMap"
  /\ \E e \in Emissions(<<UpperHex[mp[m].idx + 1], UpperHex[mp[m].n + 1]>>) :
       /\ sink' = [sink EXCEPT ![m].buf = @ \o e]
       /\ emitted' = emitted \cup Records(e)
  /\ mp' = [mp EXCEPT ![m].pc = "read"]
  /\ calls' = [calls EXCEPT !.active = @ - 1]
  /\ UNCHANGED <<cfgVars, mainpc, exit, panicked, wg, work, tmp, redVars, drvVars>>

InMapFinal == mainpc \in {"stdinFinal", "poolFinal", "filterFinal"}

\* mapperFinal after Main's own mapper: mapperFinal(mrjob, mEmit) in mapreduce
\* without input files, mapperFinal(mrjob, emitter) in mapper mode.
MainMapFinal ==
  /\ Alive /\ mainpc \in {"stdinMap", "filterMap"} /\ mp[0].pc = "eof"
  /\ mainpc' = IF mainpc = "stdinMap" THEN "stdinFinal" ELSE "filterFinal"
  /\ calls' = [calls EXCEPT !.MapFinal = @ + 1]
  /\ UNCHANGED <<cfgVars, exit, panicked, wg, work, mp, sink, tmp, emitted,
                 redVars, drvVars>>

\* mrjob.MapFinal(emitter) returns, having emitted to Main's sink.
MapFinalReturn ==
  /\ Alive /\ InMapFinal
  /\ \E e \in Emissions(<<"F">>) :
       /\ sink' = [sink EXCEPT ![0].buf = @ \o e]
       /\ emitted' = emitted \cup Records(e)
  /\ mainpc' = IF mainpc = "filterFinal" THEN "flush" ELSE "flushMap"
  /\ UNCHANGED <<cfgVars, exit, panicked, wg, work, mp, tmp, calls, redVars, drvVars>>

\* ------------------------------------------------------------------------
\* mapreduce: the map phase
\* ------------------------------------------------------------------------

\* The goroutines of the mapper pool are launched: wg.Add(1) and go, each.
MainSpawnMappers ==
  /\ Alive /\ mainpc = "spawnMappers"
  /\ wg' = wg + opt.NumMappers
  /\ mp' = [m \in Mappers |->
              IF m \in 1..opt.NumMappers THEN [mp[m] EXCEPT !.pc = "recv"] ELSE mp[m]]
  /\ mainpc' = "dispatch"
  /\ UNCHANGED <<cfgVars, exit, panicked, work, sink, tmp, calls, emitted,
                 redVars, drvVars>>

\* An index that lags the loop: every item after the first is sent with the
\* index of the one before it.
WorkItemBehind == IF work.next > 0 THEN work.next - 1 ELSE work.next

\* The index sent with an input file: the loop's i.
WorkItem == work.next

\* mapperWork <- &mapperFile{i, fname}, taken by a goroutine in its range loop.
MainSendWork ==
  /\ Alive /\ mainpc = "dispatch" /\ work.next < Len(args)
  /\ \E w \in MapWorkers :
       /\ mp[w].pc = "recv"
       /\ mp' = [mp EXCEPT ![w].pc = "open", ![w].idx = WorkItem]
  /\ work' = [work EXCEPT !.next = @ + 1, !.handed[WorkItem] = @ + 1]
  /\ UNCHANGED <<cfgVars, mainpc, exit, panicked, wg, sink, tmp, calls, emitted,
                 redVars, drvVars>>

\* close(mapperWork)
MainCloseWork ==
  /\ Alive /\ mainpc = "dispatch" /\ work.next = Len(args)
  /\ work' = [work EXCEPT !.closed = TRUE]
  /\ mainpc' = "wait"
  /\ UNCHANGED <<cfgVars, exit, panicked, wg, mp, sink, tmp, calls, emitted,
                 redVars, drvVars>>

\* A wait that does not wait.
WaitReturnsAtOnce == TRUE

\* wg.Wait() returns when the counter is zero.
WaitReturns == wg = 0

\* wg.Wait() after the map phase
MainWaitMappers ==
  /\ Alive /\ mainpc = "wait" /\ WaitReturns
  /\ mainpc' = "final"
  /\ UNCHANGED <<pipeVars, panicked, drvVars>>

\* The tag of MapFinal's sink: len(mapperInputFiles).
FinalTag == Len(args)

\* mEmit := newPartitionEmitter(..., len(mapperInputFiles)); mapperFinal(mrjob, mEmit)
MainPoolFinal ==
  /\ Alive /\ mainpc = "final"
  /\ sink' = [sink EXCEPT ![0] = NewSink("partition", FinalTag)]
  /\ tmp' = Created(tmp, FinalTag)
  /\ calls' = [calls EXCEPT !.MapFinal = @ + 1]
  /\ mainpc' = "poolFinal"
  /\ UNCHANGED <<cfgVars, exit, panicked, wg, work, mp, emitted, redVars, drvVars>>

\* mEmit.Flush()
MainFlushMap ==
  /\ Alive /\ mainpc = "flushMap"
  /\ tmp' = Flushed(tmp, sink[0])
  /\ sink' = [sink EXCEPT ![0].buf = <<>>]
  /\ mainpc' = "closeMap"
  /\ UNCHANGED <<cfgVars, exit, panicked, wg, work, mp, calls, emitted, redVars, drvVars>>

\* mEmit.Close()
MainCloseMap ==
  /\ Alive /\ mainpc = "closeMap"
  /\ sink' = [sink EXCEPT ![0].open = FALSE]
  /\ mainpc' = "spawnReducers"
  /\ UNCHANGED <<cfgVars, exit, panicked, wg, work, mp, tmp, calls, emitted,
                 redVars, drvVars>>

\* Every sink of the pool under the first input's tag.
SinkTagFirst(w) == 0

\* The tag of a pool goroutine's sink: input.index.
SinkTag(w) == mp[w].idx

\* f, err := os.Open(input.fname): on an error the goroutine returns, with no
\* wg.Done(); on success it makes the sink tagged with the input's index.
MapWorkerOpen(w) ==
  /\ Alive /\ mp[w].pc = "open"
  /\ IF args[mp[w].idx + 1].openable
     THEN /\ mp' = [mp EXCEPT ![w].pc = "read", ![w].data = args[mp[w].idx + 1].data,
                              ![w].pos = 0, ![w].n = 0]
          /\ sink' = [sink EXCEPT ![w] = NewSink("partition", SinkTag(w))]
          /\ tmp' = Created(tmp, SinkTag(w))
          /\ work' = [work EXCEPT !.mapped[mp[w].idx] = @ + 1]
     ELSE /\ mp' = [mp EXCEPT ![w].pc = "returned"]
          /\ UNCHANGED <<sink, tmp, work>>
  /\ UNCHANGED <<cfgVars, mainpc, exit, panicked, wg, calls, emitted, redVars, drvVars>>

\* mEmit.Flush() after mapper returned
MapWorkerFlush(w) ==
  /\ Alive /\ w \in MapWorkers /\ mp[w].pc = "eof"
  /\ tmp' = Flushed(tmp, sink[w])
  /\ sink' = [sink EXCEPT ![w].buf = <<>>]
  /\ mp' = [mp EXCEPT ![w].pc = "close"]
  /\ UNCHANGED <<cfgVars, mainpc, exit, panicked, wg, work, calls, emitted,
                 redVars, drvVars>>

\* mEmit.Close(); f.Close(), and the goroutine is back at its range loop.
MapWorkerClose(w) ==
  /\ Alive /\ mp[w].pc = "close"
  /\ sink' = [sink EXCEPT ![w].open = FALSE]
  /\ mp' = [mp EXCEPT ![w].pc = "recv"]
  /\ UNCHANGED <<cfgVars, mainpc, exit, panicked, wg, work, tmp, calls, emitted,
                 redVars, drvVars>>

\* The range loop ends on the closed channel: wg.Done()
MapWorkerDone(w) ==
  /\ Alive /\ mp[w].pc = "recv" /\ work.closed
  /\ mp' = [mp EXCEPT ![w].pc = "exited"]
  /\ wg' = wg - 1
  /\ UNCHANGED <<cfgVars, mainpc, exit, panicked, work, sink, tmp, calls, emitted,
                 redVars, drvVars>>

\* ------------------------------------------------------------------------
\* sort(1): the lines of the files, in byte order
\* ------------------------------------------------------------------------

RECURSIVE BytesLess(_, _)
\* a is before b in byte-lexicographic order.
BytesLess(a, b) ==
  IF Len(b) = 0 THEN FALSE
  ELSE IF Len(a) = 0 THEN TRUE
  ELSE IF a[1] # b[1] THEN CharCode(a[1]) < CharCode(b[1])
  ELSE BytesLess(Tail(a), Tail(b))

\* Lines compare without their terminators.
LineLess(a, b) == BytesLess(TrimRight(a, NL), TrimRight(b, NL))

RECURSIVE InsertLine(_, _)
InsertLine(line, sorted) ==
  IF Len(sorted) = 0 THEN <<line>>
  ELSE IF LineLess(line, sorted[1]) THEN <<line>> \o sorted
  ELSE <<sorted[1]>> \o InsertLine(line, Tail(sorted))

RECURSIVE SortLines(_)
SortLines(lines) ==
  IF Len(lines) = 0 THEN <<>> ELSE InsertLine(lines[1], SortLines(Tail(lines)))

RECURSIVE Flatten(_)
Flatten(lines) == IF Len(lines) = 0 THEN <<>> ELSE lines[1] \o Flatten(Tail(lines))

RECURSIVE LinesOfFiles(_, _)
\* The lines of partition p's files with the tags ts, file after file.
LinesOfFiles(ts, p) ==
  IF ts = {} THEN <<>>
  ELSE LET t == CHOOSE t \in ts : \A u \in ts : t <= u
       IN tmp[<<t, p>>].lines \o LinesOfFiles(ts \ {t}, p)

\* ------------------------------------------------------------------------
\* mapreduce: the reduce phase
\* ------------------------------------------------------------------------

NoRedWorker == [pc |-> "off", partition |-> 0, fns |-> {}]

\* The goroutines of the reducer pool are launched: wg.Add(1) and go, each.
MainSpawnReducers ==
  /\ Alive /\ mainpc = "spawnReducers"
  /\ wg' = wg + opt.NumReducers
  /\ rw' = [r \in RedWorkers |->
              IF r <= opt.NumReducers THEN [rw[r] EXCEPT !.pc = "recv"] ELSE rw[r]]
  /\ mainpc' = "dispatchP"
  /\ UNCHANGED <<cfgVars, exit, panicked, mapVars, parts, redin, redout, drvVars>>

\* partitions <- i, taken by a goroutine in its range loop.
MainSendPartition ==
  /\ Alive /\ mainpc = "dispatchP" /\ parts.next < opt.NumPartitions
  /\ \E r \in RedWorkers :
       /\ rw[r].pc = "recv"
       /\ rw' = [rw EXCEPT ![r].pc = "glob", ![r].partition = parts.next]
  /\ parts' = [parts EXCEPT !.next = @ + 1, !.handed[parts.next] = @ + 1]
  /\ UNCHANGED <<cfgVars, mainpc, exit, panicked, wg, mapVars, redin, redout, drvVars>>

\* close(partitions)
MainCloseParts ==
  /\ Alive /\ mainpc = "dispatchP" /\ parts.next = opt.NumPartitions
  /\ parts' = [parts EXCEPT !.closed = TRUE]
  /\ mainpc' = "wait2"
  /\ UNCHANGED <<cfgVars, exit, panicked, wg, mapVars, rw, redin, redout, drvVars>>

\* wg.Wait() after the reduce phase
MainWaitReducers ==
  /\ Alive /\ mainpc = "wait2" /\ WaitReturns
  /\ mainpc' = "report"
  /\ UNCHANGED <<pipeVars, panicked, drvVars>>

\* fmt.Printf("output is in: ..."); mapreduce and Main return.
MainReport ==
  /\ Alive /\ mainpc = "report"
  /\ mainpc' = "exit"
  /\ exit' = "0"
  /\ UNCHANGED <<cfgVars, panicked, wg, mapVars, redVars, drvVars>>

\* fns, _ := filepath.Glob("tmp-map-out-p<pid>-f*.<partition>")
RedGlob(r) ==
  /\ Alive /\ rw[r].pc = "glob"
  /\ rw' = [rw EXCEPT ![r].pc = "sort",
                      ![r].fns = {t \in Tags : tmp[<<t, rw[r].partition>>].exists}]
  /\ UNCHANGED <<cfgVars, mainpc, exit, panicked, wg, mapVars, parts, redin, redout,
                 drvVars>>

\* sort -o redin fns..., and p.Wait()
RedSort(r) ==
  /\ Alive /\ rw[r].pc = "sort"
  /\ redin' = [redin EXCEPT ![rw[r].partition] =
                 [exists |-> TRUE,
                  data |-> Flatten(SortLines(LinesOfFiles(rw[r].fns, rw[r].partition))),
                  writers |-> @.writers \cup {r}]]
  /\ rw' = [rw EXCEPT ![r].pc = "open"]
  /\ UNCHANGED <<cfgVars, mainpc, exit, panicked, wg, mapVars, parts, redout, drvVars>>

\* f, _ := os.Open(redin); rout, _ := os.Create("red-out-p<pid>.<partition>");
\* reducer(mrjob, f, rEmit) is called.
RedReduce(r) ==
  /\ Alive /\ rw[r].pc = "open"
  /\ redout' = [redout EXCEPT ![rw[r].partition] =
                  [exists |-> TRUE, open |-> TRUE, writers |-> @.writers \cup {r}]]
  /\ drv' = [drv EXCEPT ![rw[r].partition + 1] =
               [DrvInit(redin[rw[r].partition].data) EXCEPT !.pc = "read"]]
  /\ rw' = [rw EXCEPT ![r].pc = "reduce"]
  /\ parts' = [parts EXCEPT !.reduced[rw[r].partition] = @ + 1]
  /\ UNCHANGED <<cfgVars, mainpc, exit, panicked, wg, mapVars, redin, vch, dch, gor>>

\* A loop over fns that removes nothing.
RemovesNone(r, x) == FALSE

\* for _, fn := range fns { os.Remove(fn) }: the intermediate files the
\* goroutine removes are the ones its Glob returned.
Removes(r, x) == x[2] = rw[r].partition /\ x[1] \in rw[r].fns

\* reducer returned: os.Remove of every fn and of redin.
RedRemove(r) ==
  /\ Alive /\ rw[r].pc = "reduce" /\ drv[rw[r].partition + 1].pc = "done"
  /\ tmp' = [x \in Tags \X Parts |-> IF Removes(r, x) THEN NoFile ELSE tmp[x]]
  /\ redin' = [redin EXCEPT ![rw[r].partition].exists = FALSE,
                            ![rw[r].partition].data = <<>>]
  /\ rw' = [rw EXCEPT ![r].pc = "flush"]
  /\ UNCHANGED <<cfgVars, mainpc, exit, panicked, wg, work, mp, sink, calls, emitted,
                 parts, redout, drvVars>>

\* rEmit.Flush(); rout.Close(), and the goroutine is back at its range loop.
RedFlushClose(r) ==
  /\ Alive /\ rw[r].pc = "flush"
  /\ redout' = [redout EXCEPT ![rw[r].partition].open = FALSE]
  /\ rw' = [rw EXCEPT ![r].pc = "recv"]
  /\ UNCHANGED <<cfgVars, mainpc, exit, panicked, wg, mapVars, parts, redin, drvVars>>

\* The range loop ends on the closed channel: wg.Done()
RedDone(r) ==
  /\ Alive /\ rw[r].pc = "recv" /\ parts.closed
  /\ rw' = [rw EXCEPT ![r].pc = "exited"]
  /\ wg' = wg - 1
  /\ UNCHANGED <<cfgVars, mainpc, exit, panicked, mapVars, parts, redin, redout, drvVars>>

\* ------------------------------------------------------------------------
\* Main
\* ------------------------------------------------------------------------

\* Only the two flags set together are refused.
ConfigErrorBothOnly == opt.DoMap /\ opt.DoReduce

\* optDoMap && optDoReduce, or !optDoMap && !optDoReduce: Main prints and
\* calls os.Exit(1).
ConfigError == (opt.DoMap /\ opt.DoReduce) \/ (~opt.DoMap /\ ~opt.DoReduce)

\* Main up to the first job code: the mode checks, and the start of mapreduce
\* (its branch on the input files) or of the filter.
MainStart ==
  /\ Alive /\ mainpc = "start"
  /\ IF opt.DoMapReduce
     THEN IF Len(args) = 0
          THEN /\ sink' = [sink EXCEPT ![0] = NewSink("partition", 0)]
               /\ tmp' = Created(tmp, 0)
               /\ mp' = [mp EXCEPT ![0] = [NoMapper EXCEPT !.pc = "read", !.data = stdin]]
               /\ mainpc' = "stdinMap"
               /\ UNCHANGED exit
          ELSE /\ mainpc' = "spawnMappers"
               /\ UNCHANGED <<sink, tmp, mp, exit>>
     ELSE IF ConfigError
          THEN /\ mainpc' = "exit"
               /\ exit' = "1"
               /\ UNCHANGED <<sink, tmp, mp>>
          ELSE IF opt.DoMap
               THEN /\ sink' = [sink EXCEPT ![0] = NewSink("print", 0)]
                    /\ mp' = [mp EXCEPT ![0] = [NoMapper EXCEPT !.pc = "read", !.data = stdin]]
                    /\ mainpc' = "filterMap"
                    /\ UNCHANGED <<tmp, exit>>
               ELSE /\ sink' = [sink EXCEPT ![0] = NewSink("print", 0)]
                    /\ mainpc' = "reduce"
                    /\ UNCHANGED <<tmp, mp, exit>>
  /\ UNCHANGED <<cfgVars, panicked, wg, work, calls, emitted, redVars, drvVars>>

\* if optDoReduce { reducer(mrjob, os.Stdin, emitter) }
MainReducer ==
  /\ Alive /\ mainpc = "reduce" /\ drv[0].pc = "idle"
  /\ drv' = [drv EXCEPT ![0] = [DrvInit(stdin) EXCEPT !.pc = "read"]]
  /\ UNCHANGED <<vch, dch, gor, panicked, mainpc, pipeVars>>

\* reducer returned
MainReducerReturn ==
  /\ Alive /\ mainpc = "reduce" /\ drv[0].pc = "done"
  /\ mainpc' = "flush"
  /\ UNCHANGED <<drvVars, panicked, pipeVars>>

\* Main returns with what the emitter holds unwritten.
MainReturnsUnflushed ==
  /\ Alive /\ mainpc = "flush"
  /\ mainpc' = "exit"
  /\ exit' = "0"
  /\ UNCHANGED <<cfgVars, panicked, wg, mapVars, redVars, drvVars>>

\* emitter.Flush(), and Main returns: the process ends.
MainFlush ==
  /\ Alive /\ mainpc = "flush"
  /\ sink' = [sink EXCEPT ![0].buf = <<>>]
  /\ mainpc' = "exit"
  /\ exit' = "0"
  /\ UNCHANGED <<cfgVars, panicked, wg, work, mp, tmp, calls, emitted, redVars, drvVars>>

\* ------------------------------------------------------------------------
\* Specifications
\* ------------------------------------------------------------------------

RECURSIVE LinesOf(_, _)
\* The stream of the records with the reduce keys ks: the i-th record's value
\* is the digit i, so that every value of an input is distinct.
LinesOf(ks, i) ==
  IF i > Len(ks) THEN <<>>
  ELSE encodeKeyValueLine(ks[i], <<>>, <<UpperHex[i + 1]>>) \o LinesOf(ks, i + 1)

KeySeqs == UNION {[1..n -> Keys] : n \in 0..MaxRecords}

\* Standard inputs of the reduce driver.
ReduceInputs == {LinesOf(ks, 1) : ks \in KeySeqs}

RECURSIVE MapInput(_)
MapInput(n) == IF n = 0 THEN <<>> ELSE <<"a", NL>> \o MapInput(n - 1)

\* Inputs of the map driver: up to MaxLines lines.
MapInputs == {MapInput(n) : n \in 0..MaxLines}

\* Standard inputs of the map filter: up to MaxFilterLines lines, and after
\* them nothing or bytes that no newline ends.
FilterMapInputs ==
  {MapInput(n) \o t : n \in 0..MaxFilterLines, t \in {<<>>, <<"a">>}}

\* An input file named on the command line: one that cannot be opened, or
\* one with a content.
InputFiles ==
  {[openable |-> FALSE, data |-> <<>>]} \cup {[openable |-> TRUE, data |-> d] : d \in MapInputs}

Options(modes) ==
  {[DoMap |-> m[1], DoReduce |-> m[2], DoMapReduce |-> m[3],
    NumPartitions |-> n, NumMappers |-> nm, NumReducers |-> nr] :
     m \in modes, n \in 1..MaxPartitions, nm \in 1..MaxMappers, nr \in 1..MaxReducers}

\* The state Main starts in.
StartAll(o, a, in, c, s) ==
  /\ opt = o /\ args = a /\ stdin = in /\ codec = c /\ sorter = s
  /\ mainpc = "start" /\ exit = "" /\ panicked = FALSE
  /\ wg = 0
  /\ work = [next |-> 0, closed |-> FALSE, handed |-> [i \in Tags |-> 0],
             mapped |-> [i \in Tags |-> 0]]
  /\ mp = [m \in Mappers |-> NoMapper]
  /\ sink = [m \in Mappers |-> NoSink]
  /\ tmp = [x \in Tags \X Parts |-> NoFile]
  /\ parts = [next |-> 0, closed |-> FALSE, handed |-> [p \in Parts |-> 0],
              reduced |-> [p \in Parts |-> 0]]
  /\ rw = [r \in RedWorkers |-> NoRedWorker]
  /\ redin = [p \in Parts |-> [exists |-> FALSE, data |-> <<>>, writers |-> {}]]
  /\ redout = [p \in Parts |-> [exists |-> FALSE, open |-> FALSE, writers |-> {}]]
  /\ calls = [Map |-> 0, MapFinal |-> 0, active |-> 0]
  /\ emitted = {}
  /\ drv = [d \in Drivers |-> DrvInit(<<>>)]
  /\ vch = [d \in Drivers |-> <<>>]
  /\ dch = [d \in Drivers |-> <<>>]
  /\ gor = [d \in Drivers |-> <<>>]

NoCodec == [pc |-> "off", in |-> KeyValue(<<>>, <<>>, <<>>), line |-> <<>>, out |-> NoKV]

NoSorter == [pc |-> "off", recs |-> <<>>, lines |-> <<>>, out |-> <<>>]

StartWith(o, a, in, c) == StartAll(o, a, in, c, NoSorter)

Start(o, a, in) == StartWith(o, a, in, NoCodec)

\* The reduce driver as Main runs it in reducer mode, with a Reduce that reads
\* its stream to the end.
InitReducer ==
  \E in \in ReduceInputs :
    Start([DoMap |-> FALSE, DoReduce |-> TRUE, DoMapReduce |-> FALSE,
           NumPartitions |-> 1, NumMappers |-> 1, NumReducers |-> 1], <<>>, in)

ReducerSteps(d) ==
  \/ DrvRead(d)
  \/ DrvClose(d)
  \/ DrvWaitRecv(d)
  \/ DrvWaitClosed(d)
  \/ DrvMakeValues(d)
  \/ DrvMakeDone(d)
  \/ DrvGo(d)
  \/ DrvSend(d)
  \/ GoStart(d)
  \/ GoRecv(d)
  \/ GoDrained(d)
  \/ GoSendClosed(d)
  \/ GoClose(d)

NextReducer == MainStart \/ MainReducer \/ ReducerSteps(0) \/ MainReducerReturn \/ MainFlush

SpecReducer == InitReducer /\ [][NextReducer]_vars

ArgLists(n) == UNION {[1..k -> InputFiles] : k \in 0..n}

Modes == {<<TRUE, FALSE, FALSE>>, <<FALSE, TRUE, FALSE>>, <<FALSE, FALSE, TRUE>>}

\* Standard input is read by the two filters and by mapreduce without input
\* files; only mapreduce reads the pool sizes and the input files. What a
\* mode does not read is left at one value.
RunsReducer(o) == ~o.DoMapReduce /\ o.DoReduce /\ ~o.DoMap

ReadsStdin(o, a) ==
  \/ o.DoMapReduce /\ Len(a) = 0
  \/ ~o.DoMapReduce /\ o.DoMap # o.DoReduce

Sensible(o, a, in) ==
  /\ in \in (IF RunsReducer(o) THEN ReduceInputs ELSE MapInputs)
  /\ ~ReadsStdin(o, a) => in = <<>>
  /\ ~o.DoMapReduce =>
       a = <<>> /\ o.NumPartitions = 1 /\ o.NumMappers = 1 /\ o.NumReducers = 1

\* Main in each of its three modes, on every command line and standard input
\* within the bounds.
Init ==
  \E o \in Options(Modes), a \in ArgLists(MaxFiles), in \in MapInputs \cup ReduceInputs :
    Sensible(o, a, in) /\ Start(o, a, in)

MapSteps ==
  \/ \E m \in Mappers : MapRead(m) \/ MapReturn(m)
  \/ MainMapFinal
  \/ MapFinalReturn

PoolSteps ==
  \/ MainSpawnMappers
  \/ MainSendWork
  \/ MainCloseWork
  \/ MainWaitMappers
  \/ MainPoolFinal
  \/ \E w \in MapWorkers :
       MapWorkerOpen(w) \/ MapWorkerFlush(w) \/ MapWorkerClose(w) \/ MapWorkerDone(w)

ReduceSteps ==
  \/ MainSpawnReducers
  \/ MainSendPartition
  \/ MainCloseParts
  \/ MainWaitReducers
  \/ MainReport
  \/ \E r \in RedWorkers :
       RedGlob(r) \/ RedSort(r) \/ RedReduce(r) \/ RedRemove(r) \/ RedFlushClose(r)
         \/ RedDone(r)

Next ==
  \/ MainStart
  \/ MapSteps
  \/ PoolSteps
  \/ MainFlushMap
  \/ MainCloseMap
  \/ ReduceSteps
  \/ MainReducer
  \/ MainReducerReturn
  \/ MainFlush
  \/ \E d \in Drivers : ReducerSteps(d)

Spec == Init /\ [][Next]_vars

\* Main under every combination of the three mode flags, with pools of one
\* goroutine, one partition and at most one input file.
AllModes == {<<m, r, mr>> : m \in BOOLEAN, r \in BOOLEAN, mr \in BOOLEAN}

InitMain ==
  \E o \in Options(AllModes), a \in ArgLists(1), in \in MapInputs \cup ReduceInputs :
    /\ o.NumPartitions = 1 /\ o.NumMappers = 1 /\ o.NumReducers = 1
    /\ Sensible(o, a, in)
    /\ Start(o, a, in)

SpecMain == InitMain /\ [][Next]_vars

\* ------------------------------------------------------------------------
\* The codec on its own: a record is encoded to its intermediate line, and
\* the line is read back
\* ------------------------------------------------------------------------

KeyBytes == {"a", "2", ",", "%", TAB, "+"}

KeyStrings == UNION {[1..n -> KeyBytes] : n \in 0..MaxKeyLen}

ValueStrings == {<<>>, <<"v">>, <<TAB, "v", ",">>, <<"%", "v", " ">>}

CodecEncode ==
  /\ codec.pc = "encode"
  /\ codec' = [codec EXCEPT !.pc = "decode",
                 !.line = encodeKeyValueLine(codec.in.ReduceKey, codec.in.SortKey,
                                             codec.in.Value)]
  /\ UNCHANGED <<opt, args, stdin, sorter, mainpc, exit, panicked, wg, mapVars, redVars,
                 drvVars>>

CodecDecode ==
  /\ codec.pc = "decode"
  /\ codec' = [codec EXCEPT !.pc = "done", !.out = readLineKeyValue(codec.line, 0)]
  /\ UNCHANGED <<opt, args, stdin, sorter, mainpc, exit, panicked, wg, mapVars, redVars,
                 drvVars>>

InitCodec ==
  \E r \in KeyStrings, s \in KeyStrings, v \in ValueStrings :
    StartWith([DoMap |-> FALSE, DoReduce |-> FALSE, DoMapReduce |-> FALSE,
               NumPartitions |-> 1, NumMappers |-> 1, NumReducers |-> 1], <<>>, <<>>,
              [NoCodec EXCEPT !.pc = "encode", !.in = KeyValue(r, s, v)])

NextCodec == CodecEncode \/ CodecDecode

SpecCodec == InitCodec /\ [][NextCodec]_vars

\* ------------------------------------------------------------------------
\* Main as a filter: -mapper alone or -reducer alone, on standard input
\* ------------------------------------------------------------------------

InitFilter ==
  \E m \in BOOLEAN :
    \E in \in (IF m THEN FilterMapInputs ELSE ReduceInputs) :
      Start([DoMap |-> m, DoReduce |-> ~m, DoMapReduce |-> FALSE,
             NumPartitions |-> 1, NumMappers |-> 1, NumReducers |-> 1], <<>>, in)

NextFilter ==
  \/ MainStart
  \/ MapSteps
  \/ MainReducer
  \/ ReducerSteps(0)
  \/ MainReducerReturn
  \/ MainFlush

SpecFilter == InitFilter /\ [][NextFilter]_vars

\* ------------------------------------------------------------------------
\* The sort of a partition on its own: records are written as lines, the
\* lines are sorted, and the sorted file is read back
\* ------------------------------------------------------------------------

\* Records of the reduce keys a and a!, with and without a sort key.
SortRecords ==
  {KeyValue(r, s, v) : r \in {<<"a">>, <<"a", "!">>}, s \in {<<>>, <<"b">>},
                       v \in {<<"1">>, <<"2">>}}

\* The sinks write a line per record.
SortEncode ==
  /\ sorter.pc = "encode"
  /\ sorter' = [sorter EXCEPT !.pc = "sort",
        !.lines = [i \in 1..Len(sorter.recs) |->
                     encodeKeyValueLine(sorter.recs[i].ReduceKey, sorter.recs[i].SortKey,
                                        sorter.recs[i].Value)]]
  /\ UNCHANGED <<opt, args, stdin, codec, mainpc, exit, panicked, wg, mapVars, redVars,
                 drvVars>>

\* sort -o redin fns...
SortRun ==
  /\ sorter.pc = "sort"
  /\ sorter' = [sorter EXCEPT !.pc = "decode", !.lines = SortLines(sorter.lines)]
  /\ UNCHANGED <<opt, args, stdin, codec, mainpc, exit, panicked, wg, mapVars, redVars,
                 drvVars>>

RECURSIVE DecodeAll(_, _)
\* The records readLineKeyValue reads from a stream until its first error.
DecodeAll(data, pos) ==
  LET r == readLineKeyValue(data, pos)
  IN IF r.err THEN <<>> ELSE <<r.kv>> \o DecodeAll(data, r.pos)

\* reducer reads the sorted file.
SortDecode ==
  /\ sorter.pc = "decode"
  /\ sorter' = [sorter EXCEPT !.pc = "done", !.out = DecodeAll(Flatten(sorter.lines), 0)]
  /\ UNCHANGED <<opt, args, stdin, codec, mainpc, exit, panicked, wg, mapVars, redVars,
                 drvVars>>

InitSort ==
  \E rs \in UNION {[1..n -> SortRecords] : n \in 1..MaxSortRecords} :
    StartAll([DoMap |-> FALSE, DoReduce |-> FALSE, DoMapReduce |-> FALSE,
              NumPartitions |-> 1, NumMappers |-> 1, NumReducers |-> 1], <<>>, <<>>,
             NoCodec, [NoSorter EXCEPT !.pc = "encode", !.recs = rs])

NextSort == SortEncode \/ SortRun \/ SortDecode

SpecSort == InitSort /\ [][NextSort]_vars

\* ------------------------------------------------------------------------
\* The reduce filter on inputs that end well or badly
\* ------------------------------------------------------------------------

\* What follows the last good line: nothing, a key that no tab ends, a key
\* with a bad escape, or a record that no newline ends.
Tails == {<<>>, <<"a">>, <<"%", "z", TAB, "1", NL>>, <<"a", TAB, "1">>}

TailInputs ==
  {LinesOf(ks, 1) \o t : ks \in UNION {[1..n -> Keys] : n \in 0..MaxTailRecords},
                         t \in Tails}

InitTail ==
  \E in \in TailInputs :
    Start([DoMap |-> FALSE, DoReduce |-> TRUE, DoMapReduce |-> FALSE,
           NumPartitions |-> 1, NumMappers |-> 1, NumReducers |-> 1], <<>>, in)

SpecTail == InitTail /\ [][NextReducer]_vars

\* ------------------------------------------------------------------------
\* The reduce filter with a Reduce that may return before the end of its
\* stream
\* ------------------------------------------------------------------------

NextEarly == NextReducer \/ GoEarly(0)

SpecEarly == InitReducer /\ [][NextEarly]_vars


\* ------------------------------------------------------------------------
\* The pipeline on inputs that can all be opened, under fair scheduling
\* ------------------------------------------------------------------------

\* -mapreduce alone, on every pool size and partition count within the
\* bounds, and input files that os.Open opens.
InitLive ==
  \E o \in Options({<<FALSE, FALSE, TRUE>>}), a \in ArgLists(MaxFiles), in \in MapInputs :
    /\ \A i \in 1..Len(a) : a[i].openable
    /\ Sensible(o, a, in)
    /\ Start(o, a, in)

\* The steps of mapreduce: main, the two pools, and the reducer loops the
\* reduce workers run.
NextLive ==
  \/ MainStart
  \/ MapSteps
  \/ PoolSteps
  \/ MainFlushMap
  \/ MainCloseMap
  \/ ReduceSteps
  \/ \E d \in Drivers \ {0} : ReducerSteps(d)

\* The Go scheduler runs every goroutine that can run, and a panic ends the
\* process: a run stops only where no step is left.
SpecLive == InitLive /\ [][NextLive]_vars /\ WF_vars(NextLive)
\* ------------------------------------------------------------------------
\* What the reduce driver is to do with an input
\* ------------------------------------------------------------------------

RECURSIVE RecordsFrom(_, _)
\* The records of a stream, up to its end or its first undecodable line.
RecordsFrom(data, pos) ==
  LET r == readLineKeyValue(data, pos)
  IN IF r.err THEN <<>> ELSE <<r.kv>> \o RecordsFrom(data, r.pos)

RECURSIVE GroupsOf(_)
\* The maximal runs of records with equal reduce key: key and values, in order.
GroupsOf(recs) ==
  IF Len(recs) = 0 THEN <<>>
  ELSE LET rest == GroupsOf(Tail(recs))
       IN IF Len(rest) > 0 /\ rest[1].key = recs[1].ReduceKey
          THEN <<[key |-> recs[1].ReduceKey, vals |-> <<recs[1].Value>> \o rest[1].vals]>>
                 \o Tail(rest)
          ELSE <<[key |-> recs[1].ReduceKey, vals |-> <<recs[1].Value>>]>> \o rest

Groups(d) == GroupsOf(RecordsFrom(drv[d].data, 0))

IsPrefix(s, t) == Len(s) <= Len(t) /\ s = SubSeq(t, 1, Len(s))

\* Reduce is running: the goroutine has called it and it has not returned.
Active(d) == {g \in 1..Len(gor[d]) : gor[d][g].pc = "running"}

\* C4: at most one Reduce invocation of a driver is active at any time, and a
\* new group's invocation is started only after the previous one returned and
\* its done signal was taken.
C4_OneActiveReduce ==
  \A d \in Drivers :
    /\ Cardinality(Active(d)) <= 1
    /\ \A g \in 2..Len(gor[d]) : gor[d][g - 1].pc \in {"sent", "finished"}

\* C2: when the driver returns, Reduce has been invoked once per maximal run
\* of equal reduce keys, in input order, each invocation with the key of its
\* run and a stream that was given as many values as the run has records.
C2_OneReducePerRun ==
  \A d \in Drivers :
    drv[d].pc = "done" =>
      /\ Len(gor[d]) = Len(Groups(d))
      /\ \A g \in 1..Len(gor[d]) :
           /\ gor[d][g].pc # "spawned"
           /\ gor[d][g].key = Groups(d)[g].key
           /\ Len(vch[d][gor[d][g].ch].sent) = Len(Groups(d)[g].vals)

\* C3: the values an invocation has received are the first values of its own
\* group, in input order, and all of them once it has read its stream to the
\* end.
C3_ValuesInOrder ==
  \A d \in Drivers :
    \A g \in 1..Len(gor[d]) :
      /\ g <= Len(Groups(d))
      /\ IsPrefix(gor[d][g].got, Groups(d)[g].vals)
      /\ gor[d][g].drained => gor[d][g].got = Groups(d)[g].vals

\* ------------------------------------------------------------------------
\* The phases of a run
\* ------------------------------------------------------------------------

\* A goroutine of the reducer pool has taken a partition and works on it.
Processing(r) == rw[r].pc \in {"glob", "sort", "open", "reduce", "flush"}

\* Nothing of the map phase is left to do: no mapper run can call Map again,
\* no Map or MapFinal is in progress, MapFinal was called, and every sink is
\* flushed and closed.
MapPhaseOver ==
  /\ \A m \in Mappers : mp[m].pc \in {"off", "eof", "exited"}
  /\ \A w \in MapWorkers : mp[w].pc # "eof"
  /\ calls.active = 0
  /\ calls.MapFinal = 1 /\ ~InMapFinal
  /\ \A m \in Mappers : ~sink[m].open /\ sink[m].buf = <<>>

\* C1: in mapreduce, a goroutine of the reducer pool works on a partition only
\* when every goroutine of the mapper pool has ended its loop, MapFinal has
\* returned and its sink is flushed and closed.
C1_PhaseBarrier ==
  \A r \in RedWorkers : Processing(r) => MapPhaseOver

\* A reducer works on a partition after a pool of two mappers mapped two files.
C1_Witness ==
  /\ \E r \in RedWorkers : rw[r].pc = "reduce"
  /\ opt.NumMappers = 2 /\ Len(args) = 2 /\ calls.Map = 2
  /\ mp[1].pc = "exited" /\ mp[2].pc = "exited"

\* The map phase of the run is behind Main.
MapPhaseCompleted ==
  \/ mainpc \in {"flushMap", "closeMap", "spawnReducers", "dispatchP", "wait2", "report"}
  \/ mainpc \in {"flush", "exit"} /\ ~opt.DoMapReduce /\ opt.DoMap /\ ~opt.DoReduce
  \/ mainpc = "exit" /\ opt.DoMapReduce

\* C5: MapFinal is invoked at most once, exactly once in a run whose map phase
\* is completed (mapreduce with and without input files, and mapper mode), and
\* from its start on no Map invocation is in progress and none can start.
C5_MapFinalOnceAfterMaps ==
  /\ calls.MapFinal <= 1
  /\ MapPhaseCompleted => calls.MapFinal = 1
  /\ calls.MapFinal = 1 =>
       /\ calls.active = 0
       /\ \A m \in Mappers : mp[m].pc \in {"off", "eof", "exited"}
       /\ \A w \in MapWorkers : mp[w].pc # "eof"

\* MapFinal runs after two goroutines of the pool have called Map.
C5_Witness ==
  /\ mainpc = "poolFinal" /\ calls.Map = 2 /\ calls.MapFinal = 1
  /\ opt.NumMappers = 2

\* The goroutines of the two pools that have not ended.
RunningMappers == {w \in MapWorkers : mp[w].pc \notin {"off", "exited", "returned"}}
RunningReducers == {r \in RedWorkers : rw[r].pc \notin {"off", "exited"}}

\* C6: every goroutine of the mapper pool and of the reducer pool signals the
\* WaitGroup when it ends, on every path: the counter is the number of pool
\* goroutines that have not ended.
C6_EveryWorkerSignals ==
  wg = Cardinality(RunningMappers) + Cardinality(RunningReducers)

\* Partitioned sinks that are open at the same time.
OpenSinks == {m \in Mappers : sink[m].open /\ sink[m].kind = "partition"}

\* C10: sinks open at the same time have different tags, the tag of MapFinal's
\* sink is none a mapper of the pool has used, reducers at work at the same
\* time have different partitions, and every sorted file and every output
\* file is written by one goroutine of the reducer pool.
C10_DisjointFiles ==
  /\ \A m1, m2 \in OpenSinks : m1 # m2 => sink[m1].tag # sink[m2].tag
  /\ (opt.DoMapReduce /\ Len(args) > 0 /\ sink[0].kind = "partition") =>
       \A w \in MapWorkers : sink[w].kind = "partition" => sink[w].tag # sink[0].tag
  /\ \A r1, r2 \in RedWorkers :
       (r1 # r2 /\ Processing(r1) /\ Processing(r2)) => rw[r1].partition # rw[r2].partition
  /\ \A p \in Parts :
       /\ Cardinality(redin[p].writers) <= 1
       /\ Cardinality(redout[p].writers) <= 1
       /\ redout[p].writers \subseteq redin[p].writers

\* Two sinks of the mapper pool are open at once, and later two reducers
\* write their output files at once.
C10_Witness ==
  \/ /\ 1 \in OpenSinks /\ 2 \in OpenSinks
     /\ mp[1].pc = "inMap" /\ mp[2].pc = "inMap"
  \/ /\ rw[1].pc = "reduce" /\ rw[2].pc = "reduce"
     /\ redout[0].open /\ redout[1].open

\* ------------------------------------------------------------------------
\* Mode selection
\* ------------------------------------------------------------------------

\* The job's Map, MapFinal or Reduce has been invoked.
JobCodeRan ==
  \/ calls.Map > 0 \/ calls.MapFinal > 0
  \/ \E d \in Drivers : \E g \in 1..Len(gor[d]) : gor[d][g].pc # "spawned"

\* Flags set among -mapper, -reducer and -mapreduce.
ModesSelected ==
  (IF opt.DoMap THEN 1 ELSE 0) + (IF opt.DoReduce THEN 1 ELSE 0)
    + (IF opt.DoMapReduce THEN 1 ELSE 0)

\* Main ended in os.Exit(1) with no job code run.
Refused == mainpc = "exit" /\ exit = "1" /\ ~JobCodeRan

\* C7 as stated: job code runs only when exactly one of the three flags is
\* set, and with -mapper and -reducer both set, or with no flag set, Main
\* ends in the configuration error and no job code has run.
C7_ExactlyOneMode ==
  /\ JobCodeRan => ModesSelected = 1
  /\ ((opt.DoMap /\ opt.DoReduce) \/ ModesSelected = 0) =>
       /\ ~JobCodeRan
       /\ mainpc # "start" => Refused

\* C7, amended: without -mapreduce, job code runs only when exactly one of
\* -mapper and -reducer is set, and with both or neither Main ends in the
\* configuration error with no job code run; with -mapreduce Main runs the
\* pipeline and none of the filters, whatever the other two flags are.
C7_ModeSelection ==
  /\ ~opt.DoMapReduce =>
       /\ JobCodeRan => opt.DoMap # opt.DoReduce
       /\ (opt.DoMap = opt.DoReduce /\ mainpc # "start") => Refused
       /\ mainpc \in {"start", "filterMap", "filterFinal", "reduce", "flush", "exit"}
  /\ opt.DoMapReduce =>
       /\ mainpc \notin {"filterMap", "filterFinal", "reduce", "flush"}
       /\ exit # "1"

\* Main has refused -mapper together with -reducer.
C7_Witness ==
  /\ ~opt.DoMapReduce /\ opt.DoMap /\ opt.DoReduce
  /\ mainpc = "exit" /\ exit = "1"

\* ------------------------------------------------------------------------
\* The pipeline end to end
\* ------------------------------------------------------------------------

\* The Reduce invocations of the run for a key: driver and group number.
InvocationsOf(k) ==
  {x \in (Drivers \ {0}) \X (1..(2 * MaxFiles + 2)) :
     /\ x[2] <= Len(gor[x[1]])
     /\ gor[x[1]][x[2]].key = k
     /\ gor[x[1]][x[2]].pc # "spawned"}

\* The values the map phase emitted under a key.
ValuesOf(k) == {e.Value : e \in {x \in emitted : x.ReduceKey = k}}

\* The sorted file of every partition holds each reduce key in one run.
Contiguous ==
  \A d \in Drivers \ {0} : \A i, j \in 1..Len(Groups(d)) :
    i # j => Groups(d)[i].key # Groups(d)[j].key

\* C8: when a mapreduce run has completed, and every sorted file held each
\* key in one run, Reduce was invoked exactly once for every key the map
\* phase emitted, by the reducer of the key's partition, and the invocation
\* received every value emitted under the key, each once.
C8_OneReducePerKey ==
  (opt.DoMapReduce /\ mainpc = "exit" /\ exit = "0" /\ Contiguous) =>
    \A k \in {e.ReduceKey : e \in emitted} :
      /\ Cardinality(InvocationsOf(k)) = 1
      /\ \A x \in InvocationsOf(k) :
           /\ x[1] = PartitionOf(k, opt.NumPartitions) + 1
           /\ gor[x[1]][x[2]].drained
           /\ {gor[x[1]][x[2]].got[i] : i \in 1..Len(gor[x[1]][x[2]].got)} = ValuesOf(k)
           /\ Len(gor[x[1]][x[2]].got) = Cardinality(ValuesOf(k))

\* ------------------------------------------------------------------------
\* The codec
\* ------------------------------------------------------------------------

\* C9: the line encodeKeyValueLine makes of a reduce key, a sort key and a
\* value is read back by readLineKeyValue, whole and with no error, as the
\* same reduce key, sort key and value.
C9_RoundTrip ==
  codec.pc = "done" =>
    /\ ~codec.out.err
    /\ codec.out.kv = codec.in
    /\ codec.out.pos = Len(codec.line)

\* A record with a comma and a percent sign in its reduce key, a tab in its
\* sort key and a tab in its value has made the round trip.
C9_Witness ==
  /\ codec.pc = "done"
  /\ codec.in.ReduceKey = <<",", "%">>
  /\ codec.in.SortKey = <<TAB>>
  /\ codec.in.Value = <<TAB, "v", ",">>

\* ------------------------------------------------------------------------
\* The files a run leaves behind
\* ------------------------------------------------------------------------

\* mapreduce has returned after its report.
PipelineDone == opt.DoMapReduce /\ mainpc = "exit" /\ exit = "0"

\* C11: when a mapreduce run has completed, no intermediate file of any tag
\* (MapFinal's included) and partition exists, no sorted file exists, and the
\* output files that exist are those of the partitions 0..N-1, each closed.
C11_OnlyOutputsRemain ==
  PipelineDone =>
    /\ \A x \in Tags \X Parts : ~tmp[x].exists
    /\ \A p \in Parts : ~redin[p].exists
    /\ \A p \in Parts : redout[p].exists <=> p < opt.NumPartitions
    /\ \A p \in Parts : ~redout[p].open

\* A run over two input files and two partitions has completed.
C11_Witness ==
  /\ PipelineDone
  /\ Len(args) = 2 /\ opt.NumPartitions = 2
  /\ redout[0].exists /\ redout[1].exists

\* ------------------------------------------------------------------------
\* Filter mode
\* ------------------------------------------------------------------------

RECURSIVE LineCount(_)
\* The lines of a stream: one per newline.
LineCount(s) ==
  IF Len(s) = 0 THEN 0 ELSE (IF s[1] = NL THEN 1 ELSE 0) + LineCount(Tail(s))

MapperMode == ~opt.DoMapReduce /\ opt.DoMap /\ ~opt.DoReduce
ReducerMode == ~opt.DoMapReduce /\ ~opt.DoMap /\ opt.DoReduce

\* The reduce driver has run or some Reduce was invoked.
ReduceSideRan ==
  \E d \in Drivers : drv[d].pc # "idle" \/ Len(gor[d]) > 0

\* C12: with -mapper alone, Map is invoked once per line of standard input,
\* then MapFinal once, and neither reducer nor Reduce ever; with -reducer
\* alone reducer runs, once, and Map and MapFinal are never invoked; in both
\* modes Main returns with nothing left unwritten in its emitter.
C12_FilterRunsOneDriver ==
  /\ MapperMode =>
       /\ ~ReduceSideRan
       /\ calls.Map <= LineCount(stdin)
       /\ calls.MapFinal = (IF mainpc \in {"filterFinal", "flush", "exit"} THEN 1 ELSE 0)
       /\ calls.MapFinal = 1 => calls.Map = LineCount(stdin) /\ calls.active = 0
  /\ ReducerMode =>
       /\ calls.Map = 0 /\ calls.MapFinal = 0 /\ mp[0].pc = "off"
       /\ mainpc \in {"flush", "exit"} => drv[0].pc = "done"
       /\ \A d \in Drivers \ {0} : drv[d].pc = "idle" /\ Len(gor[d]) = 0
  /\ (MapperMode \/ ReducerMode) /\ mainpc = "exit" =>
       /\ exit = "0"
       /\ sink[0].kind = "print" /\ sink[0].buf = <<>>

\* The map filter has returned after two lines, with two records written.
C12_Witness ==
  /\ MapperMode /\ mainpc = "exit"
  /\ calls.Map = 2 /\ calls.MapFinal = 1
  /\ Cardinality(emitted) >= 2

\* ------------------------------------------------------------------------
\* The order of a sorted file
\* ------------------------------------------------------------------------

\* Record x is not after record y: by encoded reduce key, then encoded sort
\* key, then value, each in byte order.
RecordLeq(x, y) ==
  LET xr == PercentEncode(x.ReduceKey)
      yr == PercentEncode(y.ReduceKey)
      xs == PercentEncode(x.SortKey)
      ys == PercentEncode(y.SortKey)
  IN \/ BytesLess(xr, yr)
     \/ /\ xr = yr
        /\ \/ BytesLess(xs, ys)
           \/ xs = ys /\ ~BytesLess(y.Value, x.Value)

\* C13: the records read from the sorted file are the records written, in
\* the order of reduce key, then sort key, then value, and the records of a
\* reduce key are next to each other.
C13_SortedByKeys ==
  sorter.pc = "done" =>
    /\ Len(sorter.out) = Len(sorter.recs)
    /\ \A i \in 1..(Len(sorter.out) - 1) : RecordLeq(sorter.out[i], sorter.out[i + 1])
    /\ \A i, j, k \in 1..Len(sorter.out) :
         (i < j /\ j < k /\ sorter.out[i].ReduceKey = sorter.out[k].ReduceKey)
           => sorter.out[j].ReduceKey = sorter.out[i].ReduceKey

\* ------------------------------------------------------------------------
\* The end of the reduce driver's input
\* ------------------------------------------------------------------------

RECURSIVE StopPos(_, _)
\* Where the reading loop stops: the reader's position after the first read
\* that fails.
StopPos(data, pos) ==
  LET r == readLineKeyValue(data, pos)
  IN IF r.err THEN r.pos ELSE StopPos(data, r.pos)

\* The reading loop has left its loop.
LoopEnded(d) == drv[d].pc \in {"closeFinal", "waitFinal", "done"}

\* C14: when the reduce driver's input has at least one record and then ends
\* or fails to decode, the driver reads no further, does not panic, and when
\* it has returned the stream of the last group is closed, that group's
\* Reduce has returned, and every group's Reduce has received all the values
\* of the group's records.
C14_CloseOutAtEnd ==
  (ReducerMode /\ Len(Groups(0)) >= 1) =>
    /\ ~panicked
    /\ LoopEnded(0) => drv[0].pos = StopPos(drv[0].data, 0)
    /\ drv[0].pc = "done" =>
         /\ Len(gor[0]) = Len(Groups(0))
         /\ vch[0][drv[0].values].closed
         /\ gor[0][Len(gor[0])].pc \in {"sent", "finished"}
         /\ \A g \in 1..Len(gor[0]) : gor[0][g].got = Groups(0)[g].vals

\* C17: when the reduce driver's input has no record that decodes, the
\* driver does not panic and invokes Reduce not once.
C17_EmptyInputReturns ==
  (ReducerMode /\ drv[0].pc # "idle" /\ Len(Groups(0)) = 0) =>
    /\ ~panicked
    /\ Len(gor[0]) = 0

\* ------------------------------------------------------------------------
\* The bounded value stream
\* ------------------------------------------------------------------------

RECURSIVE TakenFrom(_, _, _)
\* The number of values the first n goroutines of a driver took from its
\* channel c.
TakenFrom(d, c, n) ==
  IF n = 0 THEN 0
  ELSE (IF gor[d][n].ch = c THEN Len(gor[d][n].got) ELSE 0) + TakenFrom(d, c, n - 1)

\* Values the loop has sent on a channel and no Reduce has taken.
Pending(d, c) == Len(vch[d][c].sent) - TakenFrom(d, c, Len(gor[d]))

\* No stream holds more than its capacity.
C15_Bounded ==
  \A d \in Drivers : \A c \in 1..Len(vch[d]) :
    Pending(d, c) >= 0 /\ Pending(d, c) <= ValuesCap

\* A loop that is at its send with ValuesCap values pending stays there and
\* reads nothing.
C15_Blocks ==
  \A d \in Drivers :
    (drv[d].pc = "send" /\ Pending(d, drv[d].values) = ValuesCap)
      => drv'[d].pc = "send" /\ drv'[d].pos = drv[d].pos

\* C15: the values sent on a group's stream and not yet taken by Reduce are
\* never more than the capacity, and while they are as many the loop stays
\* at its send and reads no further line.
C15_Backpressure == []C15_Bounded /\ [][C15_Blocks]_vars

\* The loop waits at its send with the stream full and its Reduce running.
C15_Witness ==
  /\ drv[0].pc = "send"
  /\ Pending(0, drv[0].values) = ValuesCap
  /\ \E g \in 1..Len(gor[0]) : gor[0][g].pc = "running" /\ gor[0][g].ch = drv[0].values

\* ------------------------------------------------------------------------
\* The distribution of the work
\* ------------------------------------------------------------------------

RECURSIVE TotalLines(_)
\* The lines of all the input files.
TotalLines(a) ==
  IF Len(a) = 0 THEN 0 ELSE LineCount(a[1].data) + TotalLines(Tail(a))

\* A mapreduce run over input files that all can be opened.
PoolRun ==
  /\ opt.DoMapReduce /\ Len(args) >= 1
  /\ \A i \in 1..Len(args) : args[i].openable

CanBeTaken(d) ==
  \E g \in 1..Len(gor[d]) :
    \/ gor[d][g].pc = "spawned"
    \/ gor[d][g].pc = "running" /\ gor[d][g].ch = drv[d].values

\* C18: the reading loop is never at its send on a full stream that no Reduce
\* will take from, every Reduce of the driver having returned: with every
\* Reduce returning, early or not, the loop goes on to its end.
C18_LoopNeverStuck ==
  \A d \in Drivers :
    (drv[d].pc = "send" /\ ~vch[d][drv[d].values].closed /\ Full(d, drv[d].values))
      => CanBeTaken(d)

\* ------------------------------------------------------------------------
\* The end of a pipeline run
\* ------------------------------------------------------------------------

\* Every input file named on the command line can be opened.
AllOpenable == \A i \in 1..Len(args) : args[i].openable

\* The map phase has emitted a record for every partition 0..N-1.
EveryPartitionFed ==
  \A p \in 0..(opt.NumPartitions - 1) :
    \E e \in emitted : PartitionOf(e.ReduceKey, opt.NumPartitions) = p

\* The map phase is over and has left some partition without a record.
PartitionLeftEmpty ==
  /\ mainpc \in {"spawnReducers", "dispatchP", "wait2", "report", "exit"}
  /\ ~EveryPartitionFed

\* The pipeline is finished: both waits have returned, main has reported and
\* exited with status 0, and every goroutine of the two pools is out of its
\* loop.
AllDone ==
  /\ PipelineDone
  /\ wg = 0
  /\ \A w \in MapWorkers : mp[w].pc \in {"off", "exited"}
  /\ \A r \in RedWorkers : rw[r].pc \in {"off", "exited"}

\* Some step of the run can be taken. A driver at its read and a worker at
\* its sort have their step: DrvRead has a branch for every outcome of
\* readLineKeyValue, and RedSort waits for nothing.
CanStep ==
  \/ Alive /\ \E d \in Drivers \ {0} : drv[d].pc = "read"
  \/ Alive /\ \E r \in RedWorkers : rw[r].pc = "sort"
  \/ ENABLED NextLive

\* C19: a mapreduce run whose input files all can be opened, whose map phase
\* leaves a record for every partition and whose Reduce reads every stream
\* to its end stops nowhere but at its end: in every state the run is
\* finished, with every goroutine of the two pools out of its loop, or some
\* step of it can be taken, or the map phase has left a partition empty.
\* Every run being finite, this is that under fair scheduling the run
\* reaches its end.
C19_DoneOrEnabled == AllDone \/ PartitionLeftEmpty \/ CanStep
====
